---------------------------- MODULE Spec2Model ----------------------------
(***************************************************************************)
(* Model of the Bookmeter crawler (src/utils): the retry queue, the        *)
(* dual-path fetcher, the two repositories and the crawl orchestration.    *)
(*                                                                         *)
(* Four specifications share the definitions below:                       *)
(*   SpecQueue  the RetryQueue driven by arbitrary enqueue/dequeue calls   *)
(*   SpecFetch  one call of _fetch_with_playwright, step by step           *)
(*   SpecRepo   SQLiteRepository and MilvusRepository driven by the same   *)
(*              sequence of save / save_book / save_reviews calls          *)
(*   Spec       one run of BookmeterScraper.run                            *)
(***************************************************************************)
EXTENDS Integers, Sequences, FiniteSets, TLC

(***************************************************************************)
(* Settings (src/config.py) at small values, and bounds of the model.      *)
(***************************************************************************)
max_size == 2          \* retry.retry_queue_size
max_retry_count == 2   \* retry.max_retry_count
backoff_factor == 3    \* retry.backoff_factor
MaxAttempt == 4        \* SpecQueue: attempt values given to backoff, can_retry
MaxEnqueues == 5       \* SpecQueue: enqueue calls per behaviour
MaxCalls == 2          \* SpecRepo: repository calls per behaviour
MaxListLen == 2        \* SpecRepo: reviews per list
retries == 2           \* HttpClientAsync(retries=2)
NumKeywords == 2       \* search_keywords
max_workers == 1       \* max_workers
max_search_pages == 1  \* max_search_pages
max_review_pages == 3  \* amazon.max_review_pages
MaxResources == 1      \* resources of one author response
MaxRetryTabs == 1      \* rw_tabs counts up to this

BookIds == {1, 2}
Texts == {"r1", "r2"}

VARIABLES
    queue,      \* RetryQueue.queue, oldest item first
    qtick,      \* SpecQueue: the enqueue ticket of each queued item
    nextTick,   \* SpecQueue: ticket of the next enqueue call
    served,     \* SpecQueue: ticket of the item the last dequeue returned
    qlast,      \* SpecQueue: the last call and the queue it was applied to
    sq_books,   \* SQLiteRepository: the rows of table books
    sq_reviews, \* SQLiteRepository: table book_reviews, copies per triple
    mv_books,   \* MilvusRepository: the entities of collection books
    mv_reviews, \* MilvusRepository: collection book_reviews, copies per row
    rcalls,     \* SpecRepo: calls made so far
    rlastBook,  \* SpecRepo: per id, the Book of the last save_book of that id
    rgiven,     \* SpecRepo: the reviews handed to save_reviews so far
    rstored,    \* SpecRepo: the reviews of the calls SQLite did not reject
    rlast,      \* SpecRepo: the last call and what SQLite answered
    f_pc,       \* fetch: the await the call is suspended at, or "done"
    f_url,      \* fetch: argument url
    f_tol,      \* fetch: argument empty_on_error
    f_attempt,  \* fetch: loop variable attempt of HttpClientAsync._request
    f_gotos,    \* fetch: page.goto calls made
    f_gets,     \* fetch: httpx client.get calls made
    f_browser,  \* fetch: what the browser did (goto, status, text)
    f_http,     \* fetch: what the last client.get did (kind, text)
    f_out,      \* fetch: how the call ended (returned text or raised error)
    cfg,        \* run: the settings skip_existing and amazon.enable
    phase,      \* run: where BookmeterScraper.run is
    running,    \* run: self._running
    sem,        \* run: free slots of the semaphore
    kw,         \* run: per keyword, the state of its _keyword_worker task
    rw,         \* run: the state of the _retry_worker task
    rw_tabs,    \* run: tabs the retry worker opened and left open (capped)
    repo_open,  \* run: the connection of self._repo is open
    session,    \* run: the browser session: "none", "open" or "closed"
    am          \* SpecAmazon: one call of _amazon_reviews

queueVars == <<queue, qtick, nextTick, served, qlast>>
sqliteVars == <<sq_books, sq_reviews>>
milvusVars == <<mv_books, mv_reviews>>
repoGhost == <<rcalls, rlastBook, rgiven, rstored, rlast>>

fetchVars == <<f_pc, f_url, f_tol, f_attempt, f_gotos, f_gets, f_browser,
               f_http, f_out>>

crawlVars == <<cfg, phase, running, sem, kw, rw, rw_tabs, repo_open, session>>

vars == <<queueVars, sqliteVars, milvusVars, repoGhost, fetchVars, crawlVars,
          am>>

\* What the actions of each specification leave alone.
otherThanQueue == <<sqliteVars, milvusVars, repoGhost, fetchVars, crawlVars,
                    am>>
otherThanFetch == <<queueVars, sqliteVars, milvusVars, repoGhost, crawlVars,
                    am>>
otherThanRepo == <<queueVars, fetchVars, crawlVars, am>>
otherThanCrawl == <<qtick, nextTick, served, qlast, milvusVars, repoGhost,
                    fetchVars, am>>

---------------------------------------------------------------------------
(***************************************************************************)
(* RetryQueue (src/utils/helpers.py)                                       *)
(***************************************************************************)
RetryItem(id, attempts) == [id |-> id, attempts |-> attempts]

RetryItems == [id : BookIds, attempts : 0..max_retry_count]

\* attempt values: 0 for an item of a keyword task, one more per retry
Attempts == 0..MaxAttempt

\* deque(maxlen=max_size).append: append on the right, then discard from the
\* left whatever exceeds maxlen.
enqueue_unbounded(q, item) == Append(q, item)

enqueue(q, item) ==
    LET a == Append(q, item)
    IN  IF Len(a) > max_size THEN SubSeq(a, Len(a) - max_size + 1, Len(a)) ELSE a

\* deque.popleft on a non-empty deque: the item returned and the deque left.
dequeue_newest(q) == [item |-> q[Len(q)], queue |-> SubSeq(q, 1, Len(q) - 1)]

dequeue(q) == [item |-> q[1], queue |-> SubSeq(q, 2, Len(q))]

is_empty_never(q) == FALSE

is_empty(q) == Len(q) = 0

can_retry(attempt) == attempt < max_retry_count

\* backoff_factor * (2 ** (attempt - 1)), as the fraction num/den: 2 ** n is
\* an int for n >= 0 and the float 1 / 2 ** (-n) for n < 0.
backoff_double_per_attempt(attempt) ==
    [num |-> backoff_factor * (2 ^ attempt), den |-> 1]

backoff(attempt) ==
    IF attempt - 1 >= 0
    THEN [num |-> backoff_factor * (2 ^ (attempt - 1)), den |-> 1]
    ELSE [num |-> backoff_factor, den |-> 2 ^ (1 - attempt)]

NoItem == [id |-> 0, attempts |-> 0]

---------------------------------------------------------------------------
(***************************************************************************)
(* The dual-path fetcher: BookmeterScraper._fetch_with_playwright and      *)
(* _get_html (src/utils/scraper.py), HttpClientAsync._request              *)
(* (src/utils/httpclient.py). One action per await.                        *)
(***************************************************************************)
Urls == {"u1", "u2"}
\* What page.goto returns: None, or a response with its status.
NoResponse == [present |-> FALSE, status |-> 0]
Response(status) == [present |-> TRUE, status |-> status]
GotoResponses == {NoResponse} \cup {Response(st) : st \in {200, 399, 400, 503}}
GotoErrors == {"TimeoutError", "NavigationError"}
PageErrors == {"PageClosedError"}
PageTexts == {"<html>rendered</html>", "<pre>{}</pre>"}
HttpTexts == {"", "<html>plain</html>"}
HttpRetried == {"HTTPStatusError", "TransportError"}  \* caught by _request
HttpOther == {"InvalidURL"}                           \* not caught by _request

NoBrowser == [goto |-> "pending", response |-> NoResponse, page |-> "pending",
              text |-> ""]
NoHttp == [kind |-> "pending", text |-> ""]
Pending == [kind |-> "pending", text |-> "", url |-> "", cause |-> << >>]
Returned(text) == [kind |-> "return", text |-> text, url |-> "", cause |-> << >>]
\* raise RuntimeError(f"... {url}") from cause: the chain of causes
Raised(url, cause) == [kind |-> "raise", text |-> "", url |-> url, cause |-> cause]

FetchIdle ==
    /\ f_pc = "idle"
    /\ f_url = ""
    /\ f_tol = FALSE
    /\ f_attempt = 0
    /\ f_gotos = 0
    /\ f_gets = 0
    /\ f_browser = NoBrowser
    /\ f_http = NoHttp
    /\ f_out = Pending

\* _get_html: if response and response.status >= 400: raise RuntimeError
bad_status_above_400(response) == response.present /\ response.status > 400

bad_status(response) == response.present /\ response.status >= 400

\* _request: if attempt == self._retries: break
last_attempt(attempt) == attempt = retries

\* The inner except of _fetch_with_playwright: both paths have failed with
\* httpx_e, whose chain of causes is cause.
both_failed_always_empty(url, empty_on_error, cause) == Returned("")

both_failed(url, empty_on_error, cause) ==
    IF empty_on_error THEN Returned("") ELSE Raised(url, cause)

\* One step of the call: where it is suspended next and what it has seen.
FStep(pc, attempt, gets, browser, http, out) ==
    /\ f_pc' = pc
    /\ f_attempt' = attempt
    /\ f_gets' = gets
    /\ f_browser' = browser
    /\ f_http' = http
    /\ f_out' = out
    /\ UNCHANGED <<f_url, f_tol, otherThanFetch>>

\* except Exception as e: the browser path failed as browser says; the call
\* goes on to self._http.get_text(url), attempt 0 of _request.
FFallback(browser) == FStep("http_get", 0, f_gets, browser, f_http, f_out)

\* response = await page.goto(url, wait_until="networkidle", timeout=60000)
FGotoRaises ==
    /\ f_pc = "goto"
    /\ f_gotos' = f_gotos + 1
    /\ \E e \in GotoErrors : FFallback([f_browser EXCEPT !.goto = e])

FGotoResponds ==
    /\ f_pc = "goto"
    /\ f_gotos' = f_gotos + 1
    /\ \E r \in GotoResponses :
         LET browser == [f_browser EXCEPT !.goto = "response", !.response = r]
         IN  IF bad_status(r)
             THEN FFallback(browser)
             ELSE FStep("evaluate", f_attempt, f_gets, browser, f_http, f_out)

\* await page.evaluate("window.scrollTo(0, document.body.scrollHeight);")
FEvaluate ==
    /\ f_pc = "evaluate"
    /\ UNCHANGED f_gotos
    /\ \/ FStep("content", f_attempt, f_gets, f_browser, f_http, f_out)
       \/ \E e \in PageErrors : FFallback([f_browser EXCEPT !.page = e])

\* return await page.content()
FContent ==
    /\ f_pc = "content"
    /\ UNCHANGED f_gotos
    /\ \/ \E t \in PageTexts :
            FStep("done", f_attempt, f_gets,
                  [f_browser EXCEPT !.page = "ok", !.text = t], f_http,
                  Returned(t))
       \/ \E e \in PageErrors : FFallback([f_browser EXCEPT !.page = e])

\* resp = await self._client.get(url); resp.raise_for_status(); resp.text
FHttpGetOk ==
    /\ f_pc = "http_get"
    /\ UNCHANGED f_gotos
    /\ \E t \in HttpTexts :
         FStep("done", f_attempt, f_gets + 1, f_browser,
               [kind |-> "ok", text |-> t], Returned(t))

\* except (HTTPStatusError, TransportError, ValueError): sleep and go round
\* again, or after the last attempt raise RuntimeError from last_exc
FHttpGetFails ==
    /\ f_pc = "http_get"
    /\ UNCHANGED f_gotos
    /\ \E e \in HttpRetried :
         LET http == [kind |-> e, text |-> ""]
         IN  IF last_attempt(f_attempt)
             THEN FStep("done", f_attempt, f_gets + 1, f_browser, http,
                        both_failed(f_url, f_tol, <<"RuntimeError", e>>))
             ELSE FStep("http_sleep", f_attempt, f_gets + 1, f_browser, http,
                        f_out)

\* any other exception leaves _request at once
FHttpGetRaises ==
    /\ f_pc = "http_get"
    /\ UNCHANGED f_gotos
    /\ \E e \in HttpOther :
         FStep("done", f_attempt, f_gets + 1, f_browser,
               [kind |-> e, text |-> ""], both_failed(f_url, f_tol, <<e>>))

\* await self._sleep(attempt), then the next attempt
FHttpSleep ==
    /\ f_pc = "http_sleep"
    /\ UNCHANGED f_gotos
    /\ FStep("http_get", f_attempt + 1, f_gets, f_browser, f_http, f_out)

FNext ==
    \/ FGotoRaises \/ FGotoResponds \/ FEvaluate \/ FContent
    \/ FHttpGetOk \/ FHttpGetFails \/ FHttpGetRaises \/ FHttpSleep

---------------------------------------------------------------------------
(***************************************************************************)
(* Domain records (src/utils/types.py)                                     *)
(***************************************************************************)
SeqsUpTo(S, n) == UNION {[1..k -> S] : k \in 0..n}

\* The elements of a sequence, as a set.
Range(s) == {s[i] : i \in 1..Len(s)}

Book(id, title, published_at, reviews) ==
    [id |-> id, title |-> title, author |-> "author", url |-> "url",
     published_at |-> published_at, image_url |-> "img", page |-> 100,
     registration_count |-> 7, reviews |-> reviews]

Review(book_id, review, source) ==
    [book_id |-> book_id, review |-> review, source |-> source]

Reviews == [book_id : BookIds, review : Texts, source : {"bookmeter", "amazon"}]

NoBook == Book(0, "", 0, << >>)

\* A table whose rows may repeat: the number of copies of each row it holds.
EmptyTable == [r \in {} |-> 0]
Copies(table, r) == IF r \in DOMAIN table THEN table[r] ELSE 0
AddRow(table, r) ==
    IF r \in DOMAIN table THEN [table EXCEPT ![r] = @ + 1] ELSE table @@ (r :> 1)

(***************************************************************************)
(* SQLiteRepository (src/utils/repository.py)                              *)
(***************************************************************************)
\* The named parameters save_book binds from book.__dict__: one books row.
SQLiteBookRow(book) ==
    [id |-> book.id, title |-> book.title, author |-> book.author,
     url |-> book.url, published_at |-> book.published_at,
     image_url |-> book.image_url, page |-> book.page,
     registration_count |-> book.registration_count]

SQLite_exists(books, book_id) == \E r \in books : r.id = book_id

\* INSERT ... ON CONFLICT(id) DO NOTHING: what save_book would be without
\* its UPDATE SET clause.
SQLite_save_book_keep_first(books, book) ==
    IF \E r \in books : r.id = book.id THEN books
    ELSE books \cup {SQLiteBookRow(book)}

\* INSERT ... ON CONFLICT(id) DO UPDATE SET <every other column>
SQLite_save_book(books, book) ==
    IF \E r \in books : r.id = book.id
    THEN {IF r.id = book.id THEN SQLiteBookRow(book) ELSE r : r \in books}
    ELSE books \cup {SQLiteBookRow(book)}

\* One INSERT OR IGNORE of executemany. The FOREIGN KEY (PRAGMA foreign_keys
\* = ON) is not a conflict OR IGNORE covers: a book_id without a books row
\* fails the statement.
SQLite_insert_or_ignore_no_source(books, table, r) ==
    IF ~SQLite_exists(books, r.book_id) THEN [err |-> TRUE, table |-> table]
    ELSE IF \E t \in DOMAIN table :
              t.book_id = r.book_id /\ t.review = r.review
         THEN [err |-> FALSE, table |-> table]
         ELSE [err |-> FALSE, table |-> AddRow(table, r)]

SQLite_insert_or_ignore(books, table, r) ==
    IF ~SQLite_exists(books, r.book_id) THEN [err |-> TRUE, table |-> table]
    ELSE IF Copies(table, r) > 0 THEN [err |-> FALSE, table |-> table]
         ELSE [err |-> FALSE, table |-> AddRow(table, r)]

RECURSIVE SQLite_executemany(_, _, _)
SQLite_executemany(books, table, reviews) ==
    IF reviews = << >> THEN [err |-> FALSE, table |-> table]
    ELSE LET one == SQLite_insert_or_ignore(books, table, Head(reviews))
         IN  IF one.err THEN one
             ELSE SQLite_executemany(books, one.table, Tail(reviews))

\* save_reviews: nothing for an empty list; otherwise one transaction
\* (with self._conn) that is rolled back when a statement fails.
SQLite_save_reviews(books, table, reviews) ==
    IF Len(reviews) = 0 THEN [err |-> FALSE, table |-> table]
    ELSE LET done == SQLite_executemany(books, table, reviews)
         IN  IF done.err THEN [err |-> TRUE, table |-> table] ELSE done

\* save: save_book, then save_reviews of the book's own reviews.
SQLite_save(books, table, book, source) ==
    LET books2 == SQLite_save_book(books, book)
        revs == [i \in 1..Len(book.reviews) |->
                    Review(book.id, book.reviews[i], source)]
        saved == SQLite_save_reviews(books2, table, revs)
    IN  [err |-> saved.err, books |-> books2, table |-> saved.table]

(***************************************************************************)
(* MilvusRepository (src/utils/repository.py). The pymilvus calls are      *)
(* taken at their documented meaning: upsert replaces the entity with the  *)
(* same primary key, insert adds one entity per row under a fresh auto id. *)
(***************************************************************************)
\* _embed_text: the embedding service, a function of the text.
Milvus_embed_text(text) == <<"vec", text>>

\* _epoch: the instant in whole seconds.
Milvus_epoch(dt) == dt \div 1000

MilvusBookRow(book) ==
    [id |-> book.id, title_vec |-> Milvus_embed_text(book.title),
     title |-> book.title, author |-> book.author, url |-> book.url,
     published_at_ts |-> Milvus_epoch(book.published_at),
     image_url |-> book.image_url, page |-> book.page,
     registration_count |-> book.registration_count]

MilvusReviewRow(r) ==
    [book_id |-> r.book_id, source |-> r.source, review |-> r.review,
     review_vec |-> Milvus_embed_text(r.review)]

Milvus_exists(books, book_id) == \E r \in books : r.id = book_id

Milvus_save_book(books, book) ==
    {r \in books : r.id # book.id} \cup {MilvusBookRow(book)}

RECURSIVE Milvus_insert(_, _)
Milvus_insert(table, rows) ==
    IF rows = << >> THEN table
    ELSE Milvus_insert(AddRow(table, Head(rows)), Tail(rows))

Milvus_save_reviews(table, reviews) ==
    IF reviews = << >> THEN table
    ELSE Milvus_insert(table,
                       [i \in 1..Len(reviews) |-> MilvusReviewRow(reviews[i])])

Milvus_save(books, table, book, source) ==
    [books |-> Milvus_save_book(books, book),
     table |-> Milvus_save_reviews(table,
                  [i \in 1..Len(book.reviews) |->
                      Review(book.id, book.reviews[i], source)])]

---------------------------------------------------------------------------
(***************************************************************************)
(* SpecRepo: both repositories, freshly created, driven by the same calls. *)
(***************************************************************************)
\* The Book values handed to save_book and save: two versions of each id.
BookVersions == {<<"t1", 0>>, <<"t2", 1500>>}

InputBooks ==
    {Book(id, v[1], v[2], rs) : id \in BookIds, v \in BookVersions,
                                rs \in SeqsUpTo(Texts, MaxListLen)}

\* The reviews handed to save_reviews: they differ from the first one in the
\* text, in the source and in the book.
InputReviews ==
    {Review(1, "r1", "bookmeter"), Review(1, "r2", "bookmeter"),
     Review(1, "r1", "amazon"), Review(2, "r1", "bookmeter")}

InputReviewLists == SeqsUpTo(InputReviews, MaxListLen)

StripReviews(book) == [book EXCEPT !.reviews = << >>]

RepoInit ==
    /\ sq_books = {}
    /\ sq_reviews = EmptyTable
    /\ mv_books = {}
    /\ mv_reviews = EmptyTable
    /\ rcalls = 0
    /\ rlastBook = [id \in BookIds |-> NoBook]
    /\ rgiven = {}
    /\ rstored = {}
    /\ rlast = [op |-> "init", err |-> FALSE, fk |-> FALSE, dup |-> FALSE,
                prev |-> NoBook]

\* The list names a book_id that has no books row.
UnknownBook(reviews) ==
    \E i \in 1..Len(reviews) : \A row \in sq_books : row.id # reviews[i].book_id

\* The list repeats a review: one given twice in it, or given in a call before.
Repeats(reviews) ==
    \/ \E i, j \in 1..Len(reviews) : i < j /\ reviews[i] = reviews[j]
    \/ Range(reviews) \cap rgiven # {}

RSaveBook(book) ==
    /\ rcalls < MaxCalls
    /\ rcalls' = rcalls + 1
    /\ sq_books' = SQLite_save_book(sq_books, book)
    /\ mv_books' = Milvus_save_book(mv_books, book)
    /\ rlastBook' = [rlastBook EXCEPT ![book.id] = StripReviews(book)]
    /\ rlast' = [op |-> "save_book", err |-> FALSE, fk |-> FALSE,
                 dup |-> FALSE, prev |-> rlastBook[book.id]]
    /\ UNCHANGED <<sq_reviews, mv_reviews, rgiven, rstored, otherThanRepo>>

RSaveReviews(reviews) ==
    LET sq == SQLite_save_reviews(sq_books, sq_reviews, reviews)
    IN  /\ rcalls < MaxCalls
        /\ rcalls' = rcalls + 1
        /\ sq_reviews' = sq.table
        /\ mv_reviews' = Milvus_save_reviews(mv_reviews, reviews)
        /\ rgiven' = rgiven \cup Range(reviews)
        /\ rstored' = IF sq.err THEN rstored ELSE rstored \cup Range(reviews)
        /\ rlast' = [op |-> "save_reviews", err |-> sq.err,
                     fk |-> UnknownBook(reviews), dup |-> Repeats(reviews),
                     prev |-> NoBook]
        /\ UNCHANGED <<sq_books, mv_books, rlastBook, otherThanRepo>>

RSave(book, source) ==
    LET sq == SQLite_save(sq_books, sq_reviews, book, source)
        mv == Milvus_save(mv_books, mv_reviews, book, source)
        revs == {Review(book.id, book.reviews[i], source) :
                    i \in 1..Len(book.reviews)}
    IN  /\ rcalls < MaxCalls
        /\ rcalls' = rcalls + 1
        /\ sq_books' = sq.books
        /\ sq_reviews' = sq.table
        /\ mv_books' = mv.books
        /\ mv_reviews' = mv.table
        /\ rlastBook' = [rlastBook EXCEPT ![book.id] = StripReviews(book)]
        /\ rgiven' = rgiven \cup revs
        /\ rstored' = IF sq.err THEN rstored ELSE rstored \cup revs
        /\ rlast' = [op |-> "save", err |-> sq.err, fk |-> FALSE,
                     dup |-> Repeats([i \in 1..Len(book.reviews) |->
                                Review(book.id, book.reviews[i], source)]),
                     prev |-> rlastBook[book.id]]
        /\ UNCHANGED otherThanRepo

RSaveBookAny == \E book \in InputBooks : book.reviews = << >> /\ RSaveBook(book)

RSaveReviewsAny == \E reviews \in InputReviewLists : RSaveReviews(reviews)

RSaveAny == \E book \in InputBooks : RSave(book, "bookmeter")

RNext == RSaveBookAny \/ RSaveReviewsAny \/ RSaveAny

---------------------------------------------------------------------------
(***************************************************************************)
(* The crawl: BookmeterScraper (src/utils/scraper.py). The tasks are       *)
(* asyncio coroutines on one event loop, so a task runs alone from the     *)
(* await it was suspended at to its next await: one action per such run.   *)
(* What the site answers is chosen by the action that resumes the task.    *)
(***************************************************************************)
Keywords == 1..NumKeywords

unwanted_title_keywords == {"Comic"}
TitleOf(id) == IF id = 2 THEN "ComicBook Vol.1" ELSE "Novel"

\* reviews.json: the content of each resource, in order
Short10 == "0123456789"
Long11 == "0123456789a"
ReviewPayloads == {<< >>, <<Short10>>, <<Long11>>, <<"", Long11>>}

\* related_books/author: the id of each resource, in order
AuthorPayloads == SeqsUpTo(BookIds, MaxResources)

\* what _amazon_reviews returns for book_id: [] or Review(book_id, line, "amazon")
AmazonLine == "title of the review body"
AmazonPayloads(book_id) == {<< >>, <<Review(book_id, AmazonLine, "amazon")>>}

\* keyword in book.title
Contains(s, sub) ==
    \E i \in 1..(Len(s) - Len(sub) + 1) : SubSeq(s, i, i + Len(sub) - 1) = sub

\* _wanted_review: bool(review and review.content and len(review.content) > 10)
wanted_review_from_10(content) == content # "" /\ Len(content) >= 10

wanted_review(content) == content # "" /\ Len(content) > 10

\* _wanted_book: bool(book and book.reviews and not any(k in book.title ...))
wanted_book(book, unwanted) ==
    /\ book # NoBook
    /\ book.reviews # << >>
    /\ ~\E k \in unwanted : Contains(book.title, k)

\* the second argument of _wanted_book in _process_keyword (left at its
\* default) and in _retry_worker
kw_unwanted == {}
rw_unwanted == unwanted_title_keywords

\* _build_book once the reviews are fetched and parsed
build_book(id, payload) ==
    Book(id, TitleOf(id), 0, SelectSeq(payload, wanted_review))

\* async with semaphore: a slot is free
slot_always_free(value) == TRUE

slot_free(value) == value > 0

\* while self._running
loop_until_empty(run, q) == ~is_empty(q)

loop_goes_on(run, q) == run

\* tab: the page of the task ("none" before new_page returned, then "open",
\* then "closed"); opened: how many tabs the task has opened; cause: what
\* raised the error that ends the task; skipped: the ids the loop passed
\* over, as existing, in the step the task has just taken
KwIdle ==
    [pc |-> "none", page_no |-> 0, ids |-> {}, book_id |-> 0, res |-> << >>,
     skipped |-> {}, exc |-> FALSE, tab |-> "none", opened |-> 0,
     cause |-> "none"]

RwIdle ==
    [pc |-> "none", id |-> 0, attempt |-> 0, res |-> << >>, put |-> << >>,
     failed |-> "no"]

CrawlIdle ==
    /\ cfg = [skip_existing |-> FALSE, amazon_enable |-> FALSE]
    /\ phase = "rest"
    /\ running = FALSE
    /\ sem = 0
    /\ kw = [k \in Keywords |-> KwIdle]
    /\ rw = RwIdle
    /\ rw_tabs = 0
    /\ repo_open = TRUE
    /\ session = "none"

\* The event loop gives the next run to a task: run() is suspended in
\* gather, in await retry_task or in the exit of async_playwright, and the
\* retry worker is not in the middle of a run.
TasksRun == phase \in {"gather", "await_retry", "aborting"} /\ rw.pc # "top"

\* ------------------------------ run() ---------------------------------
\* run() with the tasks created before the login is awaited
OrchStart_tasks_first ==
    /\ phase = "idle"
    /\ phase' = "login"
    /\ session' = "open"
    /\ sem' = max_workers
    /\ kw' = [k \in Keywords |-> [KwIdle EXCEPT !.pc = "blocked"]]
    /\ running' = TRUE
    /\ rw' = [RwIdle EXCEPT !.pc = "start"]
    /\ UNCHANGED <<cfg, repo_open, rw_tabs, queue, sqliteVars, otherThanCrawl>>

\* with self._repo, async_playwright, launch_persistent_context, new_page
OrchStart ==
    /\ phase = "idle"
    /\ phase' = "login"
    /\ session' = "open"
    /\ UNCHANGED <<cfg, repo_open, running, sem, kw, rw, rw_tabs, queue,
                   sqliteVars, otherThanCrawl>>

\* _login returned; first_tab.close(); the keyword tasks and the retry task
\* are created and run() awaits gather
OrchLoginOk ==
    /\ phase = "login"
    /\ phase' = "gather"
    /\ sem' = max_workers
    /\ kw' = [k \in Keywords |-> [KwIdle EXCEPT !.pc = "blocked"]]
    /\ running' = TRUE
    /\ rw' = [RwIdle EXCEPT !.pc = "start"]
    /\ UNCHANGED <<cfg, repo_open, session, rw_tabs, queue, sqliteVars, otherThanCrawl>>

\* the error of _login leaves run() with the repository left open
OrchLoginFails_repo_left_open ==
    /\ phase = "login"
    /\ phase' = "failed"
    /\ session' = "closed"
    /\ UNCHANGED <<cfg, repo_open, running, sem, kw, rw, rw_tabs, queue,
                   sqliteVars, otherThanCrawl>>

\* _login: wait_for_url(URL + "/home") timed out in the finally clause; the
\* error leaves run() through both context managers, which stop the browser
\* and close the connection of the repository
OrchLoginFails ==
    /\ phase = "login"
    /\ phase' = "failed"
    /\ session' = "closed"
    /\ repo_open' = FALSE
    /\ UNCHANGED <<cfg, running, sem, kw, rw, rw_tabs, queue, sqliteVars, otherThanCrawl>>

\* gather returned and the running flag is left set
OrchGathered_flag_left_set ==
    /\ phase = "gather"
    /\ rw.pc # "top"
    /\ \A k \in Keywords : kw[k].pc = "done"
    /\ phase' = "await_retry"
    /\ UNCHANGED <<cfg, repo_open, session, running, sem, kw, rw, rw_tabs,
                   queue, sqliteVars, otherThanCrawl>>

\* await asyncio.gather(*tasks) returned; self._running = False
OrchGathered ==
    /\ phase = "gather"
    /\ rw.pc # "top"
    /\ \A k \in Keywords : kw[k].pc = "done"
    /\ running' = FALSE
    /\ phase' = "await_retry"
    /\ UNCHANGED <<cfg, repo_open, session, sem, kw, rw, rw_tabs, queue,
                   sqliteVars, otherThanCrawl>>

\* gather raised the error of a keyword task: run() leaves the block and
\* awaits the exit of async_playwright
OrchGatherRaises ==
    /\ phase = "gather"
    /\ rw.pc # "top"
    /\ \E k \in Keywords : kw[k].pc = "failed"
    /\ phase' = "aborting"
    /\ UNCHANGED <<cfg, repo_open, session, running, sem, kw, rw, rw_tabs,
                   queue, sqliteVars, otherThanCrawl>>

\* the browser is stopped, which closes every tab, the repository is closed
\* and run() raises; asyncio.run cancels the tasks that are left
OrchAborted ==
    /\ phase = "aborting"
    /\ rw.pc # "top"
    /\ phase' = "failed"
    /\ session' = "closed"
    /\ repo_open' = FALSE
    /\ kw' = [k \in Keywords |->
                IF kw[k].pc \in {"done", "failed"} THEN kw[k]
                ELSE [KwIdle EXCEPT !.pc = "cancelled",
                                    !.tab = IF kw[k].tab = "open" THEN "closed"
                                            ELSE kw[k].tab,
                                    !.opened = kw[k].opened]]
    /\ rw' = [RwIdle EXCEPT !.pc = "cancelled"]
    /\ UNCHANGED <<cfg, running, sem, rw_tabs, queue, sqliteVars, otherThanCrawl>>

\* await retry_task returned; await context.close()
OrchRetryDone ==
    /\ phase = "await_retry"
    /\ rw.pc = "finished"
    /\ phase' = "closing"
    /\ UNCHANGED <<cfg, repo_open, session, running, sem, kw, rw, rw_tabs,
                   queue, sqliteVars, otherThanCrawl>>

\* context.close() returned; both context managers exit
OrchClosed ==
    /\ phase = "closing"
    /\ phase' = "closed"
    /\ session' = "closed"
    /\ repo_open' = FALSE
    /\ UNCHANGED <<cfg, running, sem, kw, rw, rw_tabs, queue, sqliteVars, otherThanCrawl>>

\* ------------------------- _keyword_worker ----------------------------
\* if self._settings.skip_existing and self._repo.exists(book_id): continue
skip_id_whatever_the_setting(id, books) == SQLite_exists(books, id)

skip_id(id, books) == cfg.skip_existing /\ SQLite_exists(books, id)

\* the page loop goes on: the next page, or _process_keyword returns and
\* the finally clause awaits page.close()
PageDone(w) ==
    IF w.page_no < max_search_pages
    THEN [w EXCEPT !.pc = "search", !.page_no = @ + 1, !.ids = {},
                   !.book_id = 0, !.res = << >>]
    ELSE [w EXCEPT !.pc = "close", !.ids = {}, !.book_id = 0, !.res = << >>]

\* for book_id in book_ids: the loop goes on with the ids left (a set of
\* small ints is gone through in increasing order), up to the next id that
\* is not skipped, whose author is awaited
SetMin(S) == CHOOSE i \in S : \A j \in S : i <= j

NextId(w, ids, books) ==
    LET todo == {i \in ids : ~skip_id(i, books)}
    IN  IF todo = {} THEN {[PageDone(w) EXCEPT !.skipped = ids]}
        ELSE {[w EXCEPT !.pc = "author", !.book_id = SetMin(todo),
                        !.ids = {i \in ids : i > SetMin(todo)}, !.res = << >>,
                        !.skipped = {i \in ids \ todo : i < SetMin(todo)}]}

\* for res in author_resp.resources: the next resource, or the next id
NextRes(w, books) ==
    IF Len(w.res) > 1
    THEN {[w EXCEPT !.pc = "review", !.res = Tail(@), !.skipped = {}]}
    ELSE NextId(w, w.ids, books)

\* an error ends the task with its tab left open
KwRaise_tab_left_open(w) ==
    [KwIdle EXCEPT !.pc = "failed", !.exc = TRUE, !.tab = w.tab,
                   !.opened = w.opened]

\* an error leaves _process_keyword: the finally clause awaits page.close()
KwRaise(w) ==
    [KwIdle EXCEPT !.pc = "close", !.exc = TRUE, !.tab = w.tab,
                   !.opened = w.opened]

KwFrame == <<cfg, phase, running, rw, rw_tabs, repo_open, session,
            otherThanCrawl>>

\* async with semaphore: the task takes a slot and awaits context.new_page().
\* The tasks start in the order of the keywords and asyncio.Semaphore wakes
\* its waiters first come, first served.
KwAcquire(k) ==
    /\ TasksRun
    /\ kw[k].pc = "blocked"
    /\ \A j \in Keywords : j < k => kw[j].pc # "blocked"
    /\ slot_free(sem)
    /\ sem' = sem - 1
    /\ kw' = [kw EXCEPT ![k].pc = "new_page"]
    /\ UNCHANGED <<queue, sqliteVars, KwFrame>>

\* page = await context.new_page(); page 1 of the search is awaited
KwNewPage(k) ==
    /\ TasksRun
    /\ kw[k].pc = "new_page"
    /\ kw' = [kw EXCEPT ![k].pc = "search", ![k].page_no = 1,
                         ![k].tab = "open", ![k].opened = @ + 1]
    /\ UNCHANGED <<sem, queue, sqliteVars, KwFrame>>

\* book_ids = await self._search_ids(...): the ids of the page (none when
\* the fetch failed, empty_on_error being set)
KwSearch(k) ==
    /\ TasksRun
    /\ kw[k].pc = "search"
    /\ \E ids \in SUBSET BookIds :
         \E w2 \in NextId(kw[k], ids, sq_books) : kw' = [kw EXCEPT ![k] = w2]
    /\ UNCHANGED <<sem, queue, sqliteVars, KwFrame>>

\* author_resp = await self._author(book_id, page) is None: the fetch or
\* the decoding of the payload failed, _author logged it, and the loop goes
\* on with the next id
KwAuthorFails(k) ==
    /\ TasksRun
    /\ kw[k].pc = "author"
    /\ \E w2 \in NextId(kw[k], kw[k].ids, sq_books) :
         kw' = [kw EXCEPT ![k] = w2]
    /\ UNCHANGED <<sem, queue, sqliteVars, KwFrame>>

\* ... is a response: its resources are gone through (none: the next id)
KwAuthor(k) ==
    /\ TasksRun
    /\ kw[k].pc = "author"
    /\ \E rs \in AuthorPayloads :
         IF rs = << >>
         THEN \E w2 \in NextId(kw[k], kw[k].ids, sq_books) :
                 kw' = [kw EXCEPT ![k] = w2]
         ELSE kw' = [kw EXCEPT ![k].pc = "review", ![k].res = rs,
                               ![k].skipped = {}]
    /\ UNCHANGED <<sem, queue, sqliteVars, KwFrame>>

\* book = await self._build_book(res, page) failed: the id of the resource
\* is enqueued with 0 attempts, and None is not a wanted book
KwReviewFails(k) ==
    /\ TasksRun
    /\ kw[k].pc = "review"
    /\ queue' = enqueue(queue, RetryItem(Head(kw[k].res), 0))
    /\ \E w2 \in NextRes(kw[k], sq_books) : kw' = [kw EXCEPT ![k] = w2]
    /\ UNCHANGED <<sem, sqliteVars, KwFrame>>

\* book = await self._build_book(res, page) built a book that is not wanted
KwReviewUnwanted(k) ==
    /\ TasksRun
    /\ kw[k].pc = "review"
    /\ \E payload \in ReviewPayloads :
         /\ ~wanted_book(build_book(Head(kw[k].res), payload), kw_unwanted)
         /\ \E w2 \in NextRes(kw[k], sq_books) : kw' = [kw EXCEPT ![k] = w2]
    /\ UNCHANGED <<sem, queue, sqliteVars, KwFrame>>

\* ... built a wanted book: self._repo.save(book), then the marketplace
\* reviews are awaited if amazon.enable is set
KwReviewSaved(k) ==
    /\ TasksRun
    /\ kw[k].pc = "review"
    /\ \E payload \in ReviewPayloads :
         LET book == build_book(Head(kw[k].res), payload)
             sv == SQLite_save(sq_books, sq_reviews, book, "bookmeter")
         IN  /\ wanted_book(book, kw_unwanted)
             /\ sq_books' = sv.books
             /\ sq_reviews' = sv.table
             /\ IF cfg.amazon_enable
                THEN kw' = [kw EXCEPT ![k].pc = "amazon", ![k].skipped = {}]
                ELSE \E w2 \in NextRes(kw[k], sv.books) :
                        kw' = [kw EXCEPT ![k] = w2]
    /\ UNCHANGED <<sem, queue, KwFrame>>

\* ... built a wanted book, and self._repo.save(book) raised: in save_book
\* (nothing is written) or in save_reviews (the book row is written)
KwReviewSaveRaises(k) ==
    /\ TasksRun
    /\ kw[k].pc = "review"
    /\ \E payload \in ReviewPayloads :
         LET book == build_book(Head(kw[k].res), payload)
         IN  /\ wanted_book(book, kw_unwanted)
             /\ \/ sq_books' = sq_books
                \/ sq_books' = SQLite_save_book(sq_books, book)
    /\ kw' = [kw EXCEPT ![k] = [KwRaise(kw[k]) EXCEPT !.cause = "save"]]
    /\ UNCHANGED <<sem, queue, sq_reviews, KwFrame>>

\* book = await self._build_book(res, page): the reviews were fetched and
\* parsed, and building the Book raised outside the try block, on a resource
\* of the author payload whose published_at is no date or whose author is
\* null
KwBuildRaises(k) ==
    /\ TasksRun
    /\ kw[k].pc = "review"
    /\ kw' = [kw EXCEPT ![k] = [KwRaise(kw[k]) EXCEPT !.cause = "payload"]]
    /\ UNCHANGED <<sem, queue, sqliteVars, KwFrame>>

\* amazon_reviews = await self._amazon_reviews(book_id, page);
\* self._repo.save_reviews(amazon_reviews), which raises when the book_id of
\* the reviews has no books row
KwAmazon(k) ==
    /\ TasksRun
    /\ kw[k].pc = "amazon"
    /\ \E reviews \in AmazonPayloads(kw[k].book_id) :
         LET sv == SQLite_save_reviews(sq_books, sq_reviews, reviews)
         IN  IF sv.err
             THEN /\ kw' = [kw EXCEPT ![k] = [KwRaise(kw[k]) EXCEPT
                                                    !.cause = "amazon"]]
                  /\ UNCHANGED sq_reviews
             ELSE /\ sq_reviews' = sv.table
                  /\ \E w2 \in NextRes(kw[k], sq_books) :
                        kw' = [kw EXCEPT ![k] = w2]
    /\ UNCHANGED <<sem, queue, sq_books, KwFrame>>

\* await page.close() returned; the slot is released and the task ends,
\* with the error if there was one
KwClose(k) ==
    /\ TasksRun
    /\ kw[k].pc = "close"
    /\ sem' = sem + 1
    /\ kw' = [kw EXCEPT ![k] = [KwIdle EXCEPT !.pc = IF kw[k].exc THEN "failed"
                                                   ELSE "done",
                                            !.tab = "closed",
                                            !.opened = kw[k].opened,
                                            !.cause = kw[k].cause]]
    /\ UNCHANGED <<queue, sqliteVars, KwFrame>>

\* -------------------------- _retry_worker -----------------------------
RwFrame == <<cfg, phase, running, sem, kw, repo_open, session,
            otherThanCrawl>>

\* The head of the loop, reached without an await when the task starts,
\* wakes from sleep(5) or is done with an item: the task ends, sleeps, or
\* dequeues the oldest item and awaits the backoff sleep or the new tab
\* (popleft on an empty deque raises IndexError, which ends the task).
RwTop ==
    /\ phase \in {"gather", "await_retry", "aborting"}
    /\ rw.pc \in {"start", "sleep", "top"}
    /\ IF ~loop_goes_on(running, queue)
       THEN /\ rw' = [RwIdle EXCEPT !.pc = "finished"]
            /\ UNCHANGED queue
       ELSE IF is_empty(queue)
       THEN /\ rw' = [RwIdle EXCEPT !.pc = "sleep"]
            /\ UNCHANGED queue
       ELSE IF queue = << >>
       THEN /\ rw' = [RwIdle EXCEPT !.pc = "IndexError"]
            /\ UNCHANGED queue
       ELSE LET d == dequeue(queue)
            IN  /\ queue' = d.queue
                /\ rw' = [pc |-> IF d.item.attempts > 1 THEN "backoff"
                                 ELSE "new_page",
                          id |-> d.item.id, attempt |-> d.item.attempts,
                          res |-> << >>, put |-> << >>, failed |-> "no"]
    /\ UNCHANGED <<rw_tabs, sqliteVars, RwFrame>>

\* await asyncio.sleep(backoff) returned
RwBackoff ==
    /\ TasksRun
    /\ rw.pc = "backoff"
    /\ rw' = [rw EXCEPT !.pc = "new_page"]
    /\ UNCHANGED <<rw_tabs, queue, sqliteVars, RwFrame>>

\* page = await context.new_page(); nothing closes this tab
RwNewPage ==
    /\ TasksRun
    /\ rw.pc = "new_page"
    /\ rw' = [rw EXCEPT !.pc = "author"]
    /\ rw_tabs' = IF rw_tabs < MaxRetryTabs THEN rw_tabs + 1 ELSE rw_tabs
    /\ UNCHANGED <<queue, sqliteVars, RwFrame>>

\* author_resp := await self._author(book_id, page) is None: the item is
\* done, nothing is enqueued
RwAuthorFails ==
    /\ TasksRun
    /\ rw.pc = "author"
    /\ rw' = [rw EXCEPT !.pc = "top", !.failed = "author"]
    /\ UNCHANGED <<rw_tabs, queue, sqliteVars, RwFrame>>

\* ... is a response: its resources are gone through
RwAuthor ==
    /\ TasksRun
    /\ rw.pc = "author"
    /\ \E rs \in AuthorPayloads :
         rw' = IF rs = << >> THEN [rw EXCEPT !.pc = "top"]
               ELSE [rw EXCEPT !.pc = "review", !.res = rs]
    /\ UNCHANGED <<rw_tabs, queue, sqliteVars, RwFrame>>

\* for res in author_resp.resources: the next resource, or the item is done
RwNextRes(w) ==
    IF Len(w.res) > 1 THEN [w EXCEPT !.res = Tail(@)]
    ELSE [w EXCEPT !.pc = "top", !.res = << >>]

\* book = await self._build_book(res, page) failed: _build_book enqueues
\* the id of the resource with 0 attempts and returns None
RwReviewFails ==
    /\ TasksRun
    /\ rw.pc = "review"
    /\ LET item == RetryItem(Head(rw.res), 0)
       IN  /\ queue' = enqueue(queue, item)
           /\ rw' = [RwNextRes(rw) EXCEPT !.put = Append(@, item),
                                          !.failed = "review"]
    /\ UNCHANGED <<rw_tabs, sqliteVars, RwFrame>>

\* ... built a book that is not wanted
RwReviewUnwanted ==
    /\ TasksRun
    /\ rw.pc = "review"
    /\ \E payload \in ReviewPayloads :
         ~wanted_book(build_book(Head(rw.res), payload), rw_unwanted)
    /\ rw' = RwNextRes(rw)
    /\ UNCHANGED <<rw_tabs, queue, sqliteVars, RwFrame>>

\* ... built a wanted book: self._repo.save(book)
RwReviewSaved ==
    /\ TasksRun
    /\ rw.pc = "review"
    /\ \E payload \in ReviewPayloads :
         LET book == build_book(Head(rw.res), payload)
             sv == SQLite_save(sq_books, sq_reviews, book, "bookmeter")
         IN  /\ wanted_book(book, rw_unwanted)
             /\ sq_books' = sv.books
             /\ sq_reviews' = sv.table
    /\ rw' = RwNextRes(rw)
    /\ UNCHANGED <<rw_tabs, queue, RwFrame>>

\* ... built a wanted book, and self._repo.save(book) raised: the except
\* clause enqueues the item with one more attempt if can_retry(attempt),
\* and gives up otherwise
RwReviewSaveRaises ==
    /\ TasksRun
    /\ rw.pc = "review"
    /\ \E payload \in ReviewPayloads :
         LET book == build_book(Head(rw.res), payload)
         IN  /\ wanted_book(book, rw_unwanted)
             /\ \/ sq_books' = sq_books
                \/ sq_books' = SQLite_save_book(sq_books, book)
    /\ LET item == RetryItem(rw.id, rw.attempt + 1)
       IN  IF can_retry(rw.attempt)
           THEN /\ queue' = enqueue(queue, item)
                /\ rw' = [rw EXCEPT !.pc = "top", !.res = << >>,
                                    !.put = Append(@, item), !.failed = "save"]
           ELSE /\ UNCHANGED queue
                /\ rw' = [rw EXCEPT !.pc = "top", !.res = << >>,
                                    !.failed = "save"]
    /\ UNCHANGED <<rw_tabs, sq_reviews, RwFrame>>

\* book = await self._build_book(res, page): building the Book raised
\* outside the try block of _build_book; the except clause of the worker
\* enqueues the item with one more attempt if can_retry(attempt)
RwBuildRaises ==
    /\ TasksRun
    /\ rw.pc = "review"
    /\ LET item == RetryItem(rw.id, rw.attempt + 1)
       IN  IF can_retry(rw.attempt)
           THEN /\ queue' = enqueue(queue, item)
                /\ rw' = [rw EXCEPT !.pc = "top", !.res = << >>,
                                    !.put = Append(@, item), !.failed = "build"]
           ELSE /\ UNCHANGED queue
                /\ rw' = [rw EXCEPT !.pc = "top", !.res = << >>,
                                    !.failed = "build"]
    /\ UNCHANGED <<rw_tabs, sqliteVars, RwFrame>>

\* the steps of the task of one keyword
KwTask(k) ==
    \/ KwAcquire(k) \/ KwNewPage(k) \/ KwSearch(k) \/ KwAuthorFails(k)
    \/ KwAuthor(k)
    \/ KwReviewFails(k) \/ KwReviewUnwanted(k) \/ KwReviewSaved(k)
    \/ KwReviewSaveRaises(k) \/ KwBuildRaises(k) \/ KwAmazon(k)
    \/ KwClose(k)

KwNext == \E k \in Keywords : KwTask(k)

RwNext ==
    \/ RwTop \/ RwBackoff \/ RwNewPage \/ RwAuthorFails \/ RwAuthor
    \/ RwReviewFails \/ RwReviewUnwanted \/ RwReviewSaved \/ RwReviewSaveRaises
    \/ RwBuildRaises

OrchNext ==
    \/ OrchStart \/ OrchLoginOk \/ OrchLoginFails \/ OrchGathered
    \/ OrchGatherRaises \/ OrchAborted \/ OrchRetryDone \/ OrchClosed

Next == OrchNext \/ KwNext \/ RwNext

---------------------------------------------------------------------------
(***************************************************************************)
(* SpecQueue: any sequence of enqueue and dequeue calls on one RetryQueue. *)
(***************************************************************************)
QEnqueue(item) ==
    /\ nextTick <= MaxEnqueues
    /\ queue' = enqueue(queue, item)
    /\ qtick' = enqueue(qtick, nextTick)
    /\ nextTick' = nextTick + 1
    /\ qlast' = [op |-> "enqueue", item |-> item, tick |-> nextTick,
                 before |-> queue, ticksBefore |-> qtick]
    /\ UNCHANGED <<served, otherThanQueue>>

\* popleft on an empty deque raises IndexError and leaves the deque as it is.
QDequeue ==
    IF is_empty(queue)
    THEN /\ qlast' = [op |-> "IndexError", item |-> NoItem, tick |-> 0,
                      before |-> queue, ticksBefore |-> qtick]
         /\ UNCHANGED <<queue, qtick, nextTick, served>>
         /\ UNCHANGED otherThanQueue
    ELSE /\ queue' = dequeue(queue).queue
         /\ qtick' = dequeue(qtick).queue
         /\ served' = dequeue(qtick).item
         /\ qlast' = [op |-> "dequeue", item |-> dequeue(queue).item,
                      tick |-> dequeue(qtick).item,
                      before |-> queue, ticksBefore |-> qtick]
         /\ UNCHANGED <<nextTick, otherThanQueue>>

QEnqueueAny == \E item \in RetryItems : QEnqueue(item)

\* backoff(attempt) and can_retry(attempt) return a value and assign nothing.
QBackoff(attempt) ==
    /\ qlast' = [op |-> "backoff", item |-> NoItem, tick |-> 0,
                 before |-> queue, ticksBefore |-> qtick,
                 attempt |-> attempt, result |-> backoff(attempt)]
    /\ UNCHANGED <<queue, qtick, nextTick, served, otherThanQueue>>

QCanRetry(attempt) ==
    /\ qlast' = [op |-> "can_retry", item |-> NoItem, tick |-> 0,
                 before |-> queue, ticksBefore |-> qtick,
                 attempt |-> attempt, result |-> can_retry(attempt)]
    /\ UNCHANGED <<queue, qtick, nextTick, served, otherThanQueue>>

QBackoffAny == \E attempt \in Attempts : QBackoff(attempt)

QCanRetryAny == \E attempt \in Attempts : QCanRetry(attempt)

QNext == QEnqueueAny \/ QDequeue \/ QBackoffAny \/ QCanRetryAny

---------------------------------------------------------------------------
(***************************************************************************)
(* _amazon_reviews (src/utils/scraper.py): one call. A review block is its *)
(* title and body text, "" for an element that is missing; a page is the   *)
(* sequence of its li[data-hook="review"] blocks.                          *)
(***************************************************************************)
\* str.strip() of blanks
RECURSIVE strip(_)
strip(s) ==
    IF Len(s) > 0 /\ SubSeq(s, 1, 1) = " " THEN strip(SubSeq(s, 2, Len(s)))
    ELSE IF Len(s) > 0 /\ SubSeq(s, Len(s), Len(s)) = " "
    THEN strip(SubSeq(s, 1, Len(s) - 1))
    ELSE s

\* line = " ".join(parts), the parts being the stripped title and body that
\* are not empty
review_line(b) ==
    LET title == strip(b.title)
        body == strip(b.body)
    IN  IF title # "" /\ body # "" THEN title \o " " \o body
        ELSE IF title # "" THEN title
        ELSE body

\* if len(blocks) < 10: break
last_page_up_to_10(blocks) == Len(blocks) <= 10

last_page(blocks) == Len(blocks) < 10

\* the Review objects one page adds: if len(line) > 10: reviews.append(...)
amazon_lines(book_id, blocks) ==
    LET keep(b) == Len(review_line(b)) > 10
        mk(b) == Review(book_id, review_line(b), "amazon")
    IN  [i \in 1..Len(SelectSeq(blocks, keep)) |->
            mk(SelectSeq(blocks, keep)[i])]

\* what a reviews page may hold: no block, 3 or 9 blocks, and full pages of
\* 10 or 11 blocks, with lines of 7, 10, 11 and 14 characters
AmazonPages ==
    LET long == [title |-> "Great", body |-> " loved it "]
        short == [title |-> "ok", body |-> "fine"]
        of10 == [title |-> "abcd", body |-> "efghi"]
        of11 == [title |-> "  ", body |-> "0123456789a"]
    IN  { << >>,
          <<of10, of11, long>>,
          [i \in 1..9 |-> IF i = 9 THEN of10 ELSE long],
          [i \in 1..10 |-> IF i % 3 = 0 THEN short ELSE long],
          [i \in 1..10 |-> short],
          [i \in 1..11 |-> IF i = 11 THEN of11 ELSE short] }

\* pno: the page asked for; urls: the pageNumber of each fetch so far;
\* pages: what each fetch that succeeded returned; reviews: the list built
\* so far; out: what the call returned; error: the call ended in the except
\* clause
AmazonIdle_am ==
    [pc |-> "idle", book_id |-> 0, pno |-> 0, urls |-> << >>, pages |-> << >>,
     reviews |-> << >>, out |-> << >>, error |-> FALSE]

AmazonIdle == am = AmazonIdle_am

\* steps 1 and 2: the store list, the product page and its link to all
\* reviews. The call returns [] when there is no store, no amazon url, no
\* link or no "product-reviews" in it, and from the except clause when one
\* of the awaits raised; otherwise page 1 is awaited.
AmStart ==
    /\ am.pc = "stores"
    /\ \/ am' = [am EXCEPT !.pc = "done"]
       \/ am' = [am EXCEPT !.pc = "done", !.error = TRUE]
       \/ am' = [am EXCEPT !.pc = "page", !.pno = 1]
    /\ UNCHANGED <<queueVars, sqliteVars, milvusVars, repoGhost, fetchVars,
                   crawlVars>>

\* html = await self._get_html(page, url) for pageNumber = pno: it raised
\* and the except clause returns [], or it returned a page, whose lines are
\* added; the loop ends after a page of fewer than 10 blocks or after page
\* max_review_pages, and the list is returned
AmPage ==
    /\ am.pc = "page"
    /\ \/ am' = [am EXCEPT !.pc = "done", !.urls = Append(@, am.pno),
                           !.error = TRUE, !.out = << >>]
       \/ \E blocks \in AmazonPages :
            LET reviews == am.reviews \o amazon_lines(am.book_id, blocks)
                seen == [am EXCEPT !.urls = Append(@, am.pno),
                                   !.pages = Append(@, blocks),
                                   !.reviews = reviews]
            IN  IF last_page(blocks) \/ am.pno = max_review_pages
                THEN am' = [seen EXCEPT !.pc = "done", !.out = reviews]
                ELSE am' = [seen EXCEPT !.pno = @ + 1]
    /\ UNCHANGED <<queueVars, sqliteVars, milvusVars, repoGhost, fetchVars,
                   crawlVars>>

AmNext == AmStart \/ AmPage

---------------------------------------------------------------------------
(***************************************************************************)
(* The specifications. Each starts every part it does not drive at rest.   *)
(***************************************************************************)
QueueIdle ==
    /\ queue = << >>
    /\ qtick = << >>
    /\ nextTick = 1
    /\ served = 0
    /\ qlast = [op |-> "init", item |-> NoItem, tick |-> 0, before |-> << >>,
                ticksBefore |-> << >>]

\* fetch(url, empty_on_error) has just been called, for any arguments.
FetchCalled ==
    /\ f_pc = "goto"
    /\ f_url \in Urls
    /\ f_tol \in BOOLEAN
    /\ f_attempt = 0
    /\ f_gotos = 0
    /\ f_gets = 0
    /\ f_browser = NoBrowser
    /\ f_http = NoHttp
    /\ f_out = Pending

QInit == QueueIdle /\ RepoInit /\ FetchIdle /\ CrawlIdle /\ AmazonIdle
SpecQueue == QInit /\ [][QNext]_vars

FetchInit == QueueIdle /\ RepoInit /\ FetchCalled /\ CrawlIdle /\ AmazonIdle
SpecFetch == FetchInit /\ [][FNext]_vars

RepoStart == QueueIdle /\ RepoInit /\ FetchIdle /\ CrawlIdle /\ AmazonIdle

\* _amazon_reviews(book_id, page) has just been called, for any book_id.
AmazonCalled ==
    /\ QueueIdle /\ RepoInit /\ FetchIdle /\ CrawlIdle
    /\ \E id \in BookIds : am = [AmazonIdle_am EXCEPT !.pc = "stores",
                                                      !.book_id = id]

SpecAmazon == AmazonCalled /\ [][AmNext]_vars
SpecRepo == RepoStart /\ [][RNext]_vars

\* A run starts, for any setting of skip_existing and amazon.enable, on an
\* empty database.
Init ==
    /\ QueueIdle /\ RepoInit /\ FetchIdle /\ AmazonIdle
    /\ cfg \in [skip_existing : BOOLEAN, amazon_enable : BOOLEAN]
    /\ phase = "idle"
    /\ running = FALSE
    /\ sem = 0
    /\ kw = [k \in Keywords |-> KwIdle]
    /\ rw = RwIdle
    /\ rw_tabs = 0
    /\ repo_open = TRUE
    /\ session = "none"

Spec == Init /\ [][Next]_vars

\* The event loop runs every task that can go on: each await of run(), of
\* the retry worker and of each keyword task returns in the end. It serves
\* the ready tasks in the order they became ready, so run() resumes although
\* the retry worker passes the head of its loop again and again (a step of
\* run() is taken only between two whole steps of the worker).
Fairness ==
    /\ SF_vars(OrchNext)
    /\ WF_vars(RwNext)
    /\ \A k \in Keywords : WF_vars(KwTask(k))

\* A run with both settings on: stored ids are skipped and the marketplace
\* step is taken.
FairInit == Init /\ cfg = [skip_existing |-> TRUE, amazon_enable |-> TRUE]

FairSpec == FairInit /\ [][Next]_vars /\ Fairness

---------------------------------------------------------------------------
(***************************************************************************)
(* The claims.                                                             *)
(***************************************************************************)
\* C1: the queue never holds more than max_size items; an enqueue into a
\* full queue removes exactly the oldest item and appends the new one as
\* the newest, every other item keeping its place in the order; an enqueue
\* into a queue that is not full only appends.
C1_BoundedEvictOldest ==
    /\ Len(queue) <= max_size
    /\ qlast.op = "enqueue" =>
         LET before == qlast.before
         IN  /\ queue[Len(queue)] = qlast.item
             /\ IF Len(before) = max_size
                THEN /\ Len(queue) = max_size
                     /\ \A i \in 1..(max_size - 1) : queue[i] = before[i + 1]
                ELSE /\ Len(queue) = Len(before) + 1
                     /\ \A i \in 1..Len(before) : queue[i] = before[i]

\* C1 witness: an enqueue into a full queue has just evicted the oldest item,
\* which differs from the items kept.
C1_Witness ==
    /\ qlast.op = "enqueue"
    /\ Len(qlast.before) = max_size
    /\ qlast.before[1] \notin Range(queue)

\* C2: every dequeue returns the item enqueued earliest among those in the
\* queue, and the items come out in the order of their enqueue calls: each
\* dequeued ticket is the smallest one queued and larger than every ticket
\* dequeued before.
C2_OldestFirst ==
    /\ \A i, j \in 1..Len(qtick) : i < j => qtick[i] < qtick[j]
    /\ \A i \in 1..Len(qtick) : served < qtick[i]
    /\ qlast.op = "dequeue" =>
         /\ \A t \in Range(qlast.ticksBefore) : qlast.tick <= t
         /\ qlast.tick = served
         /\ \E i \in 1..Len(qlast.ticksBefore) :
               /\ qlast.ticksBefore[i] = qlast.tick
               /\ qlast.before[i] = qlast.item
         /\ Range(qtick) = Range(qlast.ticksBefore) \ {qlast.tick}

\* C2 witness: a dequeue from a queue of several items, after an earlier
\* dequeue and an eviction.
C2_Witness ==
    /\ qlast.op = "dequeue"
    /\ Len(qlast.before) >= 2
    /\ qlast.before[1] # qlast.before[2]
    /\ served >= 3

\* C3: whenever the retry worker is done with an item whose redo failed, it
\* has put back exactly that id with the attempt count it was dequeued with
\* plus one if that count is under max_retry_count, and nothing otherwise.
C3_FailedRedoCountsUp ==
    (rw.pc = "top" /\ rw.failed # "no") =>
        rw.put = IF can_retry(rw.attempt)
                 THEN <<RetryItem(rw.id, rw.attempt + 1)>>
                 ELSE << >>

\* C4 as stated: the retry worker has returned only if every keyword task
\* has completed and the retry queue holds no item.
C4_TerminatesDrained ==
    rw.pc = "finished" =>
        /\ \A k \in Keywords : kw[k].pc = "done"
        /\ is_empty(queue)

\* C4 amended: the retry worker has returned only if every keyword task has
\* completed and run() has cleared the running flag and gone on to await the
\* retry task; the retry queue may still hold items then.
C4_StopsAfterCrawl ==
    rw.pc = "finished" =>
        /\ \A k \in Keywords : kw[k].pc = "done"
        /\ ~running
        /\ phase \in {"await_retry", "closing", "closed"}

\* C4 witness: the run is closed after the retry worker returned, with an
\* item left in the retry queue.
C4_Witness ==
    /\ phase = "closed"
    /\ rw.pc = "finished"
    /\ ~is_empty(queue)

\* A keyword task that holds a semaphore slot: it awaits its tab, fetches
\* with it or closes it.
Active(k) == kw[k].pc \in {"new_page", "search", "author", "review", "amazon",
                          "close"}

\* C5: at most max_workers keyword tasks hold a slot at a time; while the
\* tasks run, the free slots and the tasks that hold one add up to
\* max_workers, so that a task that has no slot (it opens no tab and fetches
\* nothing) gets one only after a running task has released its own.
C5_AtMostMaxWorkers ==
    /\ Cardinality({k \in Keywords : Active(k)}) <= max_workers
    /\ sem >= 0
    /\ phase \in {"gather", "await_retry", "aborting"} =>
          sem + Cardinality({k \in Keywords : Active(k)}) = max_workers

\* C5 witness: max_workers tasks hold a slot, one of them is fetching
\* reviews, and a further task is blocked at the semaphore.
C5_Witness ==
    /\ Cardinality({k \in Keywords : Active(k)}) = max_workers
    /\ \E k \in Keywords : kw[k].pc = "review"
    /\ \E k \in Keywords : kw[k].pc = "blocked"
    /\ sem = 0

\* What the browser did counts as a failure of the browser path: page.goto
\* timed out or failed to navigate, the response status is 400 or more, or
\* the page failed while it was scrolled or read.
BrowserFailed ==
    \/ f_browser.goto \in GotoErrors
    \/ /\ f_browser.goto = "response"
       /\ f_browser.response.present
       /\ f_browser.response.status >= 400
    \/ f_browser.page \in PageErrors

BrowserSucceeded ==
    /\ f_browser.goto = "response"
    /\ ~f_browser.response.present \/ f_browser.response.status < 400
    /\ f_browser.page = "ok"

\* C6: the browser is tried first and exactly once; the HTTP client is called
\* only after the browser path failed; a fetch whose browser path succeeded
\* returns the rendered text without any HTTP call; a fetch whose browser
\* path failed and whose HTTP client succeeded returns the HTTP client's
\* text and raises nothing, whatever empty_on_error is.
C6_BrowserFirstThenFallback ==
    /\ f_gets > 0 => f_gotos = 1 /\ BrowserFailed
    /\ f_pc \in {"http_get", "http_sleep"} => BrowserFailed
    /\ f_pc = "done" =>
         /\ f_gotos = 1
         /\ BrowserSucceeded \/ BrowserFailed
         /\ BrowserSucceeded => f_out = Returned(f_browser.text) /\ f_gets = 0
         /\ BrowserFailed => f_gets >= 1 /\ ~BrowserSucceeded
         /\ BrowserFailed /\ f_http.kind = "ok" => f_out = Returned(f_http.text)

\* C6 witness: the browser answered 400, the HTTP client failed once and then
\* succeeded, with empty_on_error off.
C6_Witness ==
    /\ f_pc = "done"
    /\ ~f_tol
    /\ f_browser.response = Response(400)
    /\ f_gets = 2
    /\ f_http.kind = "ok"
    /\ f_out = Returned("<html>plain</html>")

\* C7: when the browser path and the HTTP client have both failed, the fetch
\* returns the empty string if empty_on_error is true, and otherwise raises
\* an error that carries the URL and, as its cause, the HTTP client's
\* failure; with empty_on_error false an empty string is only ever returned
\* as the text one of the two paths delivered.
C7_BothFailed ==
    f_pc = "done" =>
      /\ BrowserFailed /\ f_http.kind \notin {"ok", "pending"} =>
           IF f_tol
           THEN f_out = Returned("")
           ELSE /\ f_out.kind = "raise"
                /\ f_out.url = f_url
                /\ Len(f_out.cause) >= 1
                /\ f_out.cause[Len(f_out.cause)] = f_http.kind
      /\ ~f_tol /\ f_out = Returned("") =>
           \/ BrowserSucceeded /\ f_browser.text = ""
           \/ f_http = [kind |-> "ok", text |-> ""]
      /\ f_out.kind = "raise" => ~f_tol

\* C7 witness: both paths failed with empty_on_error off, after the HTTP
\* client used all its attempts.
C7_Witness ==
    /\ f_pc = "done"
    /\ ~f_tol
    /\ f_browser.goto = "TimeoutError"
    /\ f_gets = retries + 1
    /\ f_out = Raised(f_url, <<"RuntimeError", "TransportError">>)

\* C8: save_book is an upsert keyed by id, in both repositories: no two
\* entries share an id, the entry of an id carries the scalar fields of the
\* last Book saved under that id (an id never saved has no entry), and
\* saving the same Book a second time leaves the store as the first save
\* left it.
C8_SaveBookUpsert ==
    /\ \A r1, r2 \in sq_books : r1.id = r2.id => r1 = r2
    /\ \A r1, r2 \in mv_books : r1.id = r2.id => r1 = r2
    /\ \A id \in BookIds :
         IF rlastBook[id] = NoBook
         THEN ~SQLite_exists(sq_books, id) /\ ~Milvus_exists(mv_books, id)
         ELSE /\ SQLiteBookRow(rlastBook[id]) \in sq_books
              /\ MilvusBookRow(rlastBook[id]) \in mv_books
    /\ \A book \in InputBooks :
         LET sq1 == SQLite_save_book(sq_books, book)
             mv1 == Milvus_save_book(mv_books, book)
         IN  /\ SQLite_save_book(sq1, book) = sq1
             /\ Milvus_save_book(mv1, book) = mv1

\* C8 witness: a Book has just been saved over an entry of the same id that
\* carried other scalar fields.
C8_Witness ==
    /\ rlast.op \in {"save_book", "save"}
    /\ rlast.prev # NoBook
    /\ \E id \in BookIds : /\ rlast.prev.id = id
                           /\ rlastBook[id] # rlast.prev
                           /\ Cardinality({r \in sq_books : r.id = id}) = 1

\* C9 as stated: every review ever handed to the relational repository is
\* stored exactly once, and nothing else is stored.
C9_EveryGivenTripleOnce ==
    \A r \in Reviews : Copies(sq_reviews, r) = IF r \in rgiven THEN 1 ELSE 0

\* C9 amended: the relational repository never stores a (book_id, source,
\* text) triple twice; it stores exactly once each distinct triple of every
\* call it did not reject, and it rejects exactly the lists that name a
\* book_id without a book entry, storing nothing of them; saving reviews
\* that are all stored already, or an empty list, leaves the store unchanged.
C9_StoredTriplesOnce ==
    /\ DOMAIN sq_reviews = rstored
    /\ \A r \in rstored : Copies(sq_reviews, r) = 1
    /\ rlast.op = "save_reviews" => rlast.err = rlast.fk
    /\ rlast.op = "save" => ~rlast.err
    /\ \A reviews \in InputReviewLists :
         (\A i \in 1..Len(reviews) : Copies(sq_reviews, reviews[i]) = 1) =>
            SQLite_save_reviews(sq_books, sq_reviews, reviews)
              = [err |-> FALSE, table |-> sq_reviews]

\* C9 witness: a list that repeats a review has been saved and not rejected,
\* with reviews of two sources and two texts of one book in the store.
C9_Witness ==
    /\ rlast.op = "save_reviews"
    /\ rlast.dup
    /\ ~rlast.err
    /\ \E r1, r2 \in rstored :
          /\ r1.book_id = r2.book_id /\ r1.review = r2.review
          /\ r1.source # r2.source

\* C10: driven by the same calls, both repositories answer exists alike and
\* hold the same books and the same reviews, each (book_id, source, text)
\* triple once.
C10_SameContract ==
    /\ \A id \in BookIds :
         SQLite_exists(sq_books, id) = Milvus_exists(mv_books, id)
    /\ {r.id : r \in sq_books} = {r.id : r \in mv_books}
    /\ \A r \in Reviews :
         /\ Copies(sq_reviews, r) = Copies(mv_reviews, MilvusReviewRow(r))
         /\ Copies(mv_reviews, MilvusReviewRow(r)) <= 1

\* C11: no row of table books has a title that contains one of the
\* configured unwanted keywords, whichever task saved it.
C11_NoUnwantedTitleStored ==
    \A row \in sq_books :
        ~\E k \in unwanted_title_keywords : Contains(row.title, k)

\* The stage of the run that a position of run() belongs to; a run that
\* raises has left the five stages.
Stage(ph) ==
    CASE ph \in {"rest", "idle"} -> "Idle"
      [] ph = "login" -> "Authenticating"
      [] ph = "gather" -> "Crawling"
      [] ph = "await_retry" -> "Draining"
      [] ph \in {"closing", "closed"} -> "Closed"
      [] OTHER -> "Raised"

StageAfter(st) ==
    CASE st = "Idle" -> "Authenticating"
      [] st = "Authenticating" -> "Crawling"
      [] st = "Crawling" -> "Draining"
      [] st = "Draining" -> "Closed"
      [] OTHER -> "None"

\* No keyword task and no retry worker exists, so nothing has been fetched,
\* enqueued or saved.
NoTaskStarted ==
    /\ \A k \in Keywords : kw[k].pc = "none"
    /\ rw.pc = "none"
    /\ ~running
    /\ is_empty(queue)
    /\ sq_books = {} /\ sq_reviews = EmptyTable

\* C12: a run goes from each stage to the next one of Idle, Authenticating,
\* Crawling, Draining, Closed, or leaves them by raising; so it is in
\* Authenticating once. Before Crawling no task has started, and the retry
\* worker is created in the one step from Authenticating to Crawling only.
C12_StagesInOrder ==
    /\ [](Stage(phase) \in {"Idle", "Authenticating"} => NoTaskStarted)
    /\ [][/\ \/ Stage(phase') = Stage(phase)
             \/ Stage(phase') = StageAfter(Stage(phase))
             \/ Stage(phase') = "Raised"
          /\ (rw.pc = "none" /\ rw'.pc # "none") =>
                (Stage(phase) = "Authenticating" /\ Stage(phase') = "Crawling")
          /\ \A k \in Keywords : (kw[k].pc = "none" /\ kw'[k].pc # "none") =>
                (Stage(phase) = "Authenticating" /\ Stage(phase') = "Crawling")
         ]_vars

\* C12 witness: a run is closed after it crawled and drained: a book was
\* saved and the retry worker has returned.
C12_Witness ==
    /\ phase = "closed"
    /\ sq_books # {}
    /\ rw.pc = "finished"
    /\ \A k \in Keywords : kw[k].pc = "done"

\* run() has raised the error of _login: no task was ever created.
LoginFailed == phase = "failed" /\ rw.pc = "none"

\* C13: when the login has failed, no keyword task and no retry worker was
\* launched, nothing is stored or queued, the browser is stopped and the
\* connection of the repository is closed; and a run that has raised takes
\* no further step, so that the login is not tried again.
C13_LoginFailureEndsRun ==
    /\ [](LoginFailed => /\ NoTaskStarted
                         /\ ~repo_open
                         /\ session = "closed")
    /\ [][phase # "failed"]_vars

\* C13 witness: the login has failed.
C13_Witness == LoginFailed /\ ~repo_open

\* C14: once the browser session is closed or the connection of the
\* repository is closed, every keyword task that was created has returned
\* or raised by itself and the retry worker has returned.
C14_ReleasedAfterTasksFinished ==
    (~repo_open \/ session = "closed") =>
        /\ \A k \in Keywords : kw[k].pc \in {"none", "done", "failed"}
        /\ rw.pc \in {"none", "finished"}

\* The task awaits a fetch of its own, or page.close().
KwFetches(k) == kw[k].pc \in {"search", "author", "review", "amazon"}

C16_PayloadErrorsStayLocal ==
    \A k \in Keywords : kw[k].cause # "payload"

\* C17: no keyword task is ended by an error of the marketplace step, the
\* harvest or the save of what it returned.
C17_MarketplaceNeverFails ==
    \A k \in Keywords : kw[k].cause # "amazon"


\* C18: when a keyword task has been ended by an error of a repository save,
\* no sibling keyword task and not the retry worker is cut short: none of
\* them is cancelled, and the session and the repository are released only
\* after the retry worker was stopped.
C18_SaveFailureFailsOnlyItsItem ==
    (\E k \in Keywords : kw[k].pc = "failed" /\ kw[k].cause = "save") =>
        /\ \A j \in Keywords : kw[j].pc # "cancelled"
        /\ rw.pc # "cancelled"
        /\ (session = "closed" => ~running)


\* 2^n by repeated doubling.
RECURSIVE Doubled(_)
Doubled(n) == IF n = 0 THEN 1 ELSE 2 * Doubled(n - 1)

\* C20: for every attempt a >= 1, backoff(a) is backoff_factor * 2^(a-1),
\* so twice backoff(a-1) from the second attempt on; can_retry(a) is true
\* exactly when a < max_retry_count; and the queue after either call is the
\* queue before it.
C20_BackoffDoublesCanRetryBelowCount ==
    /\ qlast.op = "backoff" /\ qlast.attempt >= 1 =>
         /\ qlast.result = [num |-> backoff_factor * Doubled(qlast.attempt - 1),
                            den |-> 1]
         /\ qlast.attempt >= 2 =>
              qlast.result.num = 2 * backoff(qlast.attempt - 1).num
         /\ queue = qlast.before /\ qtick = qlast.ticksBefore
    /\ qlast.op = "can_retry" /\ qlast.attempt >= 1 =>
         /\ qlast.result = (qlast.attempt < max_retry_count)
         /\ queue = qlast.before /\ qtick = qlast.ticksBefore

C20_Witness ==
    /\ qlast.op = "backoff"
    /\ qlast.attempt = 3
    /\ qlast.result.num = 4 * backoff_factor
    /\ queue # << >>


\* C19: when every await returns in the end, a run in which all keyword
\* tasks have completed reaches Closed, whatever failed, was put back into
\* the retry queue or was given up.
C19_ClosesAfterKeywordTasks ==
    (phase = "gather" /\ \A k \in Keywords : kw[k].pc = "done")
        ~> (phase = "closed")

C19_Witness ==
    /\ phase = "closed"
    /\ \A k \in Keywords : kw[k].pc = "done"
    /\ queue # << >>


\* C21: every step of a keyword task in which the author fetch or the review
\* fetch of the candidate id failed puts RetryItem(candidate id, 0) into the
\* retry queue, once, and writes nothing to the repository.
C21_FailureEnqueuesCandidateOnce ==
    [][\A k \in Keywords :
         (KwAuthorFails(k) \/ KwReviewFails(k)) =>
             /\ queue' = enqueue(queue, RetryItem(kw[k].book_id, 0))
             /\ UNCHANGED sqliteVars]_vars


\* C22: when the retry worker dequeues an item, it awaits the backoff sleep
\* before the redo exactly when the item's attempt count is 1 or more; an
\* item with attempt count 0 is redone at once.
C22_RepeatAttemptSleepsFirst ==
    [][(RwTop /\ rw'.pc \in {"backoff", "new_page"}) =>
           ((rw'.pc = "backoff") <=> (rw'.attempt >= 1))]_vars


\* C23: whenever the retry worker has a resource of an author response in
\* hand, it saves the book built from any review payload exactly when a
\* keyword task would save the book built from the same resource and
\* payload.
C23_RetrySavesWhatKeywordSaves ==
    rw.pc = "review" =>
        \A payload \in ReviewPayloads :
            LET book == build_book(Head(rw.res), payload)
            IN  wanted_book(book, rw_unwanted) <=> wanted_book(book, kw_unwanted)


\* C24: in every step of a keyword task that goes on in its list of ids, the
\* ids it passes over without any fetch, save or enqueue are ids for which
\* exists is true with skip_existing set (none when skip_existing is not
\* set), and the id whose author fetch it awaits next is not such an id; a
\* step that only passes over ids leaves the repository and the retry queue
\* as they are.
C24_SkipsExactlyExisting ==
    [][\A k \in Keywords :
         (kw'[k] # kw[k] /\ ~kw'[k].exc /\ kw'[k].pc \in {"author", "search", "close"}) =>
             /\ \A i \in kw'[k].skipped :
                   /\ cfg.skip_existing
                   /\ SQLite_exists(sq_books', i)
                   /\ i # kw'[k].book_id
             /\ kw[k].pc \in {"author", "review", "amazon"} =>
                   kw'[k].skipped =
                       kw[k].ids \ (kw'[k].ids \cup
                                       (IF kw'[k].pc = "author"
                                        THEN {kw'[k].book_id} ELSE {}))
             /\ (kw'[k].pc = "author" /\ kw'[k].book_id # kw[k].book_id) =>
                   ~(cfg.skip_existing /\ SQLite_exists(sq_books', kw'[k].book_id))
             /\ (kw[k].pc = "search" /\ kw'[k].pc # "author") =>
                   UNCHANGED <<queue, sqliteVars>>]_vars

C24_Witness ==
    \E k \in Keywords :
        /\ cfg.skip_existing
        /\ kw[k].pc = "author"
        /\ kw[k].book_id = 2
        /\ kw[k].skipped = {1}


\* C25: every stored review of the site is non-empty and longer than 10
\* characters, and every step that adds a book to the repository leaves a
\* review of the site stored for it, unless the save raised between the book
\* and its reviews.
C25_OnlyBooksWithLongReviews ==
    /\ [](\A t \in DOMAIN sq_reviews :
              t.source = "bookmeter" => (t.review # "" /\ Len(t.review) > 10))
    /\ [][\A b \in sq_books' \ sq_books :
              \/ \E t \in DOMAIN sq_reviews' :
                    t.book_id = b.id /\ t.source = "bookmeter"
              \/ \E k \in Keywords : kw'[k].cause = "save" /\ kw[k].cause # "save"
              \/ rw.pc = "review" /\ rw'.failed = "save"]_vars

C25_Witness ==
    /\ \E b \in sq_books : b.id = 1
    /\ \E t \in DOMAIN sq_reviews :
          t.book_id = 1 /\ t.source = "bookmeter" /\ Len(t.review) = 11


\* The entries of the pages, in order, whose title and body joined are
\* longer than 10 characters.
RECURSIVE KeptOf(_, _)
KeptOf(id, pages) ==
    IF pages = << >> THEN << >>
    ELSE SelectSeq([i \in 1..Len(pages[1]) |->
                       Review(id, review_line(pages[1][i]), "amazon")],
                   LAMBDA r : Len(r.review) > 10)
         \o KeptOf(id, Tail(pages))

\* C26 as stated: a call that fetched review pages returns the entries
\* longer than 10 characters of all the pages it fetched.
C26_ReturnsAllFetchedEntries ==
    (am.pc = "done" /\ am.pages # << >>) =>
        am.out = KeptOf(am.book_id, am.pages)

\* C26, amended: the pages are asked for as 1, 2, ... in order, never more
\* than max_review_pages of them, and a further page only after a page of
\* 10 blocks or more; a call in which no await raised ends right after the
\* first page of fewer than 10 blocks, or after page max_review_pages, and
\* returns the entries longer than 10 characters of all fetched pages; a
\* call in which an await raised returns the empty list.
C26_PagesInOrderUntilShortPage ==
    am.pc \in {"page", "done"} =>
        /\ am.urls = [i \in 1..Len(am.urls) |-> i]
        /\ Len(am.urls) <= max_review_pages
        /\ \A i \in 1..Len(am.pages) :
              i < Len(am.urls) => Len(am.pages[i]) >= 10
        /\ am.pc = "page" =>
              am.pno = Len(am.urls) + 1 /\ am.pno <= max_review_pages
        /\ (am.pc = "done" /\ ~am.error /\ am.urls # << >>) =>
              /\ Len(am.pages) = Len(am.urls)
              /\ \/ Len(am.pages[Len(am.pages)]) < 10
                 \/ Len(am.urls) = max_review_pages
              /\ am.out = KeptOf(am.book_id, am.pages)
        /\ (am.pc = "done" /\ am.error) => am.out = << >>

C26_Witness ==
    /\ am.pc = "done"
    /\ ~am.error
    /\ am.urls = <<1, 2>>
    /\ Len(am.pages[1]) = 10
    /\ Len(am.pages[2]) = 3
    /\ Len(am.out) = 9


\* C27: the retry worker is never ended by a dequeue from an empty queue,
\* and every step in which it takes an item finds the queue non-empty, takes
\* the item at its head and leaves the rest.
C27_NeverDequeuesFromEmpty ==
    /\ [](rw.pc # "IndexError")
    /\ [][(RwTop /\ rw'.pc \in {"backoff", "new_page"}) =>
              /\ queue # << >>
              /\ queue' = Tail(queue)
              /\ rw'.id = Head(queue).id
              /\ rw'.attempt = Head(queue).attempts]_vars

C27_Witness ==
    /\ rw.pc = "new_page"
    /\ rw.id = 1
    /\ queue # << >>
    /\ \E k \in Keywords : kw[k].pc = "review"


\* C28: whenever the retry worker has no item in hand (it sleeps on the
\* empty queue or has returned), no tab it opened is still open.
C28_RetryTabsClosed ==
    rw.pc \in {"sleep", "finished"} => rw_tabs = 0


\* C29: every stored review belongs to a stored book, and every step that
\* stores a marketplace review stores it under the id of the book the
\* keyword task has just accepted and saved.
C29_ReviewsUnderAcceptedBook ==
    /\ [](\A t \in DOMAIN sq_reviews : \E b \in sq_books : b.id = t.book_id)
    /\ [][\A t \in DOMAIN sq_reviews' \ DOMAIN sq_reviews :
              t.source = "amazon" =>
                  \E k \in Keywords :
                      /\ kw[k].pc = "amazon"
                      /\ t.book_id = Head(kw[k].res)]_vars


\* C30: whenever the retry worker is done with an item, it has put back at
\* most one item, and an item it put back carries the id of the item it
\* dequeued.
C30_PutsBackAtMostItsOwnItem ==
    rw.pc = "top" =>
        /\ Len(rw.put) <= 1
        /\ \A i \in 1..Len(rw.put) : rw.put[i].id = rw.id

=============================================================================
